---- MODULE Spec2Model ----
(***************************************************************************)
(* Model of synthetic_data.py: the command-line driver (__main__), its     *)
(* configuration checks, the generation trigger and the dataset assembler  *)
(* (create_synthetic_dataset, check_prev_files, copy_list_files).          *)
(*                                                                         *)
(* Ratios are floats in the program.  The model writes a ratio r as the    *)
(* integer 100 * r (hundredths) and computes with exact fractions; for the *)
(* ratio values drawn here (0.5, 0.52 and the integers 0 and 1) the        *)
(* double-precision results of count / ratio, int(), round() and the       *)
(* comparison with the ceilings coincide with the exact ones.              *)
(***************************************************************************)
EXTENDS Integers, Sequences, FiniteSets, TLC

VARIABLES
    args,         \* the parsed command line (argparse namespace)
    pc,           \* position of the driver script
    stdout,       \* diagnostics printed by the driver's checks
    exit_status,  \* process exit status once the process has ended, else Running
    error,        \* uncaught exception that ended the process, else "none"
    tree,         \* raw_data/NTZ_filter_synthetic exists
    pool,         \* class -> indices k of SYNTHETIC_EX_PATH/class/example_k_class.png
    gen_i,        \* class index reached by generate_synthetic_data's outer loop
    dest_dirs,    \* splits whose directory data/NTZFilterSynthetic/split exists
    dest,         \* split -> class -> files of data/NTZFilterSynthetic/split/class
    gen_calls,    \* history: calls of setup_data_generation in this run
    pool0,        \* history: the pool when this run started
    dest0,        \* history: dest when this run started (dropped once repopulated)
    copied,       \* history: split -> class -> files copy_list_files wrote in this run
    assembled,    \* history: create_synthetic_dataset was entered in this run
    stale,        \* history: this run found files of an earlier run it did not copy again
    rerun_same,   \* history: the previous run completed with these same arguments
    prev_counts,  \* history: per-class file counts that previous run left (else none)
    disk,         \* the directories that exist under raw_data (paths)
    disk0,        \* history: disk when this run started
    lx,           \* get_removed_label: the photographs, the loop position, the files written
    sel,          \* get_selected_filter: the photographs, the loop position, the table
    cp,           \* generate_synthetic_data: one label placement and its outcome
    tm,           \* get_template_match: one call and its outcome
    px            \* find_mask, paste_selected, paint_rect_edges: one call and its outcome

vars == <<args, pc, stdout, exit_status, error, tree, pool, gen_i, dest_dirs, dest,
          gen_calls, pool0, dest0, copied, assembled, stale, rerun_same, prev_counts,
          disk, disk0, lx, sel, cp, tm, px>>

----------------------------------------------------------------------------
(* Program constants *)

class_names == <<"fail_label_not_fully_printed", "fail_label_half_printed",
                 "fail_label_crooked_print", "no_fail">>

data_types == <<"train", "val", "test">>

Classes == {class_names[i] : i \in 1..Len(class_names)}

Splits == {data_types[i] : i \in 1..Len(data_types)}

TRAIN_CEILING == 48

VAL_CEILING == 6

TEST_CEILING == 6

Ceiling(split) ==
    CASE split = "train" -> TRAIN_CEILING
      [] split = "val"   -> VAL_CEILING
      [] split = "test"  -> TEST_CEILING

MSG_RATIO == "Invalid ratio, exiting..."

MSG_PAIR == "Invalid set size, ratio combination, exiting..."

MSG_TRAIN == "Train set size is too large, exiting..."

MSG_VAL == "Validation set size is too large, exiting..."

MSG_TEST == "Test set size is too large, exiting..."

CeilingMsg(split) ==
    CASE split = "train" -> MSG_TRAIN
      [] split = "val"   -> MSG_VAL
      [] split = "test"  -> MSG_TEST

----------------------------------------------------------------------------
(* Bounds of the model *)

\* real photographs per split and class in data/NTZFilter
RealPerClass == 2

\* the non-zero train count a run of the full program may ask for
TrainN == 2

\* the non-zero val / test count a run of the full program may ask for
SmallN == 1

----------------------------------------------------------------------------
(* Python arithmetic on the values the driver computes.  A float is an      *)
(* exact fraction <<num, den>> with den > 0.                                *)

Running == 0 - 1

None == "None"

Min(a, b) == IF a < b THEN a ELSE b

Max(a, b) == IF a > b THEN a ELSE b

\* count / ratio with ratio = p / 100, p # 0  (p = 0 raises ZeroDivisionError)
TrueDiv(count, p) ==
    IF p > 0 THEN <<count * 100, p>> ELSE <<-(count * 100), -p>>

\* floor of a fraction
Floor(q) ==
    IF q[1] >= 0 THEN q[1] \div q[2] ELSE -((-q[1] + q[2] - 1) \div q[2])

\* int(x): truncation toward zero
PyInt(q) ==
    IF q[1] >= 0 THEN q[1] \div q[2] ELSE -((-q[1]) \div q[2])

\* round(x): to the nearest integer, ties to even
PyRound(q) ==
    LET f == Floor(q)
        twice == 2 * (q[1] - f * q[2])
    IN  IF twice < q[2] THEN f
        ELSE IF twice > q[2] THEN f + 1
        ELSE IF f % 2 = 0 THEN f ELSE f + 1

\* exit(code): the status the process ends with; exit() passes None
ExitStatus(code) == IF code = None THEN 0 ELSE code

----------------------------------------------------------------------------
(* The command line *)

SetOf(a, split) ==
    CASE split = "train" -> a.train_set
      [] split = "val"   -> a.val_set
      [] split = "test"  -> a.test_set

RatioOf(a, split) ==
    CASE split = "train" -> a.train_ratio
      [] split = "val"   -> a.val_ratio
      [] split = "test"  -> a.test_ratio

\* n = args.train_set + args.val_set + args.test_set
TotalN(a) == a.train_set + a.val_set + a.test_set

Namespace(T, TR, V, VR, S, SR, NC) ==
    [train_set : T, train_ratio : TR, val_set : V, val_ratio : VR,
     test_set : S, test_ratio : SR, no_combine : NC]

\* ratio arguments: -0.01, 0, 0.5, 0.52, 1, 1.01
RatioArgs == {-1, 0, 50, 52, 100, 101}

\* command lines around the ceilings, for the configuration checks alone
ValidateArgs ==
    Namespace({0, 1, TRAIN_CEILING, TRAIN_CEILING + 1}, RatioArgs,
              {0, 1, VAL_CEILING, VAL_CEILING + 1}, RatioArgs,
              {0, 1, TEST_CEILING, TEST_CEILING + 1}, RatioArgs, BOOLEAN)

\* ratio arguments of single runs of the whole program: 0, 0.5, 0.52, 1, 1.01
OnceRatios == {0, 50, 52, 100, 101}

\* command lines for one run of the whole program on a new filesystem
OnceArgs ==
    Namespace({0, TrainN}, OnceRatios, {0, SmallN}, OnceRatios,
              {0, SmallN}, OnceRatios, BOOLEAN)

\* ratio arguments of repeated runs: 0, 0.5, 1.01
RunRatios == {0, 50, 101}

\* command lines for repeated runs of the whole program on one filesystem
RunArgs ==
    Namespace({0, TrainN}, RunRatios, {0, SmallN, VAL_CEILING + 1}, RunRatios,
              {0, SmallN}, RunRatios, BOOLEAN)

----------------------------------------------------------------------------
(* Configuration checks of __main__ *)

RatioInvalidNoTest(a) ==
    \/ a.train_ratio < 0 \/ a.train_ratio > 100
    \/ a.val_ratio < 0   \/ a.val_ratio > 100

\* lines 659-661
RatioInvalid(a) ==
    \/ a.train_ratio < 0 \/ a.train_ratio > 100
    \/ a.val_ratio < 0   \/ a.val_ratio > 100
    \/ a.test_ratio < 0  \/ a.test_ratio > 100

\* (set == 0) ^ (ratio == 0)
Xor(x, y) == (x /\ ~y) \/ (~x /\ y)

SetRatioMismatchNoTest(a) ==
    \/ Xor(a.train_set = 0, a.train_ratio = 0)
    \/ Xor(a.val_set = 0, a.val_ratio = 0)

\* lines 667-669
SetRatioMismatch(a) ==
    \/ Xor(a.train_set = 0, a.train_ratio = 0)
    \/ Xor(a.val_set = 0, a.val_ratio = 0)
    \/ Xor(a.test_set = 0, a.test_ratio = 0)

\* ratio < 1 and ratio != 0
RealDataUsed(p) == p < 100 /\ p # 0

\* (set / ratio) * (1 - ratio) as a fraction, ratio = p / 100
RealNeeded(set, p) ==
    LET q == TrueDiv(set, p) IN <<q[1] * (100 - p), q[2] * 100>>

TooLargeRounded(set, p, ceiling) == PyRound(TrueDiv(set, p)) - set > ceiling

\* (set / ratio) * (1 - ratio) > ceiling
TooLarge(set, p, ceiling) ==
    LET x == RealNeeded(set, p) IN x[1] > ceiling * x[2]

\* the split whose ceiling check exits first, or None
FirstTooLarge(a) ==
    IF RealDataUsed(a.train_ratio) /\ TooLarge(a.train_set, a.train_ratio, TRAIN_CEILING)
    THEN "train"
    ELSE IF RealDataUsed(a.val_ratio) /\ TooLarge(a.val_set, a.val_ratio, VAL_CEILING)
    THEN "val"
    ELSE IF RealDataUsed(a.test_ratio) /\ TooLarge(a.test_set, a.test_ratio, TEST_CEILING)
    THEN "test"
    ELSE None

----------------------------------------------------------------------------
(* The filesystem *)

\* a file of a destination directory: <<"synthetic", k>> is example_k_class.png
\* copied from the pool, <<"real", k>> the k-th photograph of data/NTZFilter
File(copy_type, k) == <<copy_type, k>>

\* the photographs of data/NTZFilter/split/class (read-only input)
RealFiles(split, class) == 1..RealPerClass

EmptyDirs == [s \in Splits |-> [c \in Classes |-> {}]]

EmptyPool == [c \in Classes |-> {}]

RECURSIVE Ascending(_)
Ascending(S) ==
    IF S = {} THEN <<>>
    ELSE LET m == CHOOSE x \in S : \A y \in S : x <= y
         IN  <<m>> \o Ascending(S \ {m})

Reverse(s) == [i \in 1..Len(s) |-> s[Len(s) + 1 - i]]

\* os.listdir returns the entries in an order the platform chooses; a run
\* enumerates its directories either ascending or descending
ListOrders == {"asc", "desc"}

ListDir(S, order) == IF order = "asc" THEN Ascending(S) ELSE Reverse(Ascending(S))

\* a slice bound of a list of length len, as Python normalises it
SliceIndex(i, len) == IF i < 0 THEN Max(len + i, 0) ELSE Min(i, len)

\* samples[lo:hi]
PySlice(samples, lo, hi) ==
    LET a == SliceIndex(lo, Len(samples))
        b == SliceIndex(hi, Len(samples))
    IN  IF a >= b THEN <<>> ELSE SubSeq(samples, a + 1, b)

CheckPrevFilesKeep(d, dirs, data_type) == d

\* check_prev_files: a missing split directory is created with empty class
\* directories, an existing one has every file of every class removed
CheckPrevFiles(d, dirs, data_type) ==
    IF data_type \notin dirs
    THEN [d EXCEPT ![data_type] = [c \in Classes |-> {}]]
    ELSE [d EXCEPT ![data_type] = [c \in Classes |-> {f \in d[data_type][c] : FALSE}]]

ClearSplitsTrainVal(d, dirs) ==
    CheckPrevFiles(CheckPrevFiles(d, dirs, "train"), dirs, "val")

\* lines 580-582: the three calls of check_prev_files
ClearSplits(d, dirs) ==
    CheckPrevFiles(CheckPrevFiles(CheckPrevFiles(d, dirs, "train"), dirs, "val"),
                   dirs, "test")

\* copy_list_files: the directory's files after copying the samples into it
CopyListFiles(files, samples, copy_type) ==
    files \cup {File(copy_type, samples[i]) : i \in 1..Len(samples)}

\* a variant that cuts every split from the start of the listing
SyntheticSamplesFromStart(a, samples, data_type) ==
    PySlice(samples, 0, SetOf(a, data_type))

\* lines 587-589: the pool listing cut into the three splits
SyntheticSamples(a, samples, data_type) ==
    CASE data_type = "train" -> PySlice(samples, 0, a.train_set)
      [] data_type = "val"   -> PySlice(samples, a.train_set, a.train_set + a.val_set)
      [] data_type = "test"  -> PySlice(samples, a.train_set + a.val_set,
                                        a.train_set + a.val_set + a.test_set)

RealSamplesNRound(set, p) == PyRound(TrueDiv(set, p)) - set

\* lines 602-603: total_samples = int(set / ratio); real_n = total_samples - set
RealSamplesN(set, p) == PyInt(TrueDiv(set, p)) - set

\* lines 599-604: the real photographs of one split mixed in by the combined method
CombinedSamples(a, listing, data_type) ==
    IF SetOf(a, data_type) = 0 THEN listing
    ELSE PySlice(listing, 0, RealSamplesN(SetOf(a, data_type), RatioOf(a, data_type)))

NoCombineSamplesNone(a, listing, data_type) == <<>>

\* lines 624-626: without combining every real photograph is taken
NoCombineSamples(a, listing, data_type) == listing

\* lines 594-629
RealSamples(a, listing, data_type) ==
    IF a.no_combine = FALSE
    THEN CombinedSamples(a, listing, data_type)
    ELSE NoCombineSamples(a, listing, data_type)

\* set / ratio is evaluated with ratio = 0
DividesByZero(a) ==
    /\ a.no_combine = FALSE
    /\ \E s \in Splits : SetOf(a, s) # 0 /\ RatioOf(a, s) = 0

\* lines 584-592: the synthetic copies of every class
CopySynthetic(d, a, pl, order) ==
    [s \in Splits |-> [c \in Classes |->
        CopyListFiles(d[s][c], SyntheticSamples(a, ListDir(pl[c], order), s),
                      "synthetic")]]

\* lines 594-629: the real copies of every class
CopyReal(d, a, order) ==
    [s \in Splits |-> [c \in Classes |->
        CopyListFiles(d[s][c], RealSamples(a, ListDir(RealFiles(s, c), order), s),
                      "real")]]

Counts(d) == [s \in Splits |-> [c \in Classes |-> Cardinality(d[s][c])]]

----------------------------------------------------------------------------
(* Generation *)

NeedGenerationFirstClass(pl, n) == Cardinality(pl[class_names[1]]) < n

\* lines 700-704: some class holds fewer than n samples
NeedGeneration(pl, n) == \E c \in Classes : Cardinality(pl[c]) < n

\* line 203 (index into subset_filters) and line 267 (index in the file name)
SampleIndex(i, j) == i * Len(class_names) + j

\* line 194: len(subset_filters)
SubsetSize(n) == n * Len(class_names)

\* the class's loop raises IndexError at line 203
IndexError(i, n) == \E j \in 0..(n - 1) : SampleIndex(i, j) >= SubsetSize(n)

\* the samples of class i written before the loop ends or raises
Written(i, n) ==
    {SampleIndex(i, j) : j \in {k \in 0..(n - 1) :
                               \A m \in 0..k : SampleIndex(i, m) < SubsetSize(n)}}

----------------------------------------------------------------------------
(* The driver: statement order of __main__ *)

AfterChecksLast(step) ==
    CASE step = "create_dirs"   -> "check_pool"
      [] step = "check_pool"    -> "assemble"
      [] step = "assemble"      -> "check_ratio"
      [] step = "check_ratio"   -> "check_pair"
      [] step = "check_pair"    -> "check_ceiling"
      [] step = "check_ceiling" -> "done"

After(step) ==
    CASE step = "create_dirs"   -> "check_ratio"
      [] step = "check_ratio"   -> "check_pair"
      [] step = "check_pair"    -> "check_ceiling"
      [] step = "check_ceiling" -> "check_pool"
      [] step = "check_pool"    -> "assemble"
      [] step = "assemble"      -> "done"

Ended == pc \in {"done", "exited", "crashed"}

(* Directories: a path is the sequence of its components *)

RAW_DATA == <<"raw_data">>

NTZ_FILTER_SYNTHETIC == <<"raw_data", "NTZ_filter_synthetic">>

CLASS_LABELS_PATH == <<"raw_data", "NTZ_filter_synthetic", "class_labels">>

FILTER_SELECTED_PATH == <<"raw_data", "NTZ_filter_synthetic", "filter_selected">>

FILTER_REMOVED_PATH == <<"raw_data", "NTZ_filter_synthetic", "label_removed">>

SYNTHETIC_EX_PATH == <<"raw_data", "NTZ_filter_synthetic", "synthetic_data">>

\* os.path.join(path, name)
Join(path, name) == Append(path, name)

\* dirlist of create_synthetic_data_dirs
dirlist == {CLASS_LABELS_PATH, FILTER_SELECTED_PATH, FILTER_REMOVED_PATH,
            SYNTHETIC_EX_PATH}

\* the class directories create_synthetic_data_dirs makes
ClassDirs ==
    {Join(CLASS_LABELS_PATH, c) : c \in Classes}
        \cup {Join(SYNTHETIC_EX_PATH, c) : c \in Classes}

\* every directory the generation phases read or write
WholeTree == {RAW_DATA, NTZ_FILTER_SYNTHETIC} \cup dirlist \cup ClassDirs

Parent(path) == SubSeq(path, 1, Len(path) - 1)

\* a set of directories that a filesystem can hold: each has its parent
IsTree(d) == \A path \in d : path = RAW_DATA \/ Parent(path) \in d

\* the trees in which raw_data exists, whole or in part
Trees == {d \in SUBSET WholeTree : RAW_DATA \in d /\ IsTree(d)}

\* lines 30-46: everything is made under the one test of the top directory
CreateSyntheticDataDirs(d) ==
    IF NTZ_FILTER_SYNTHETIC \notin d
    THEN d \cup {NTZ_FILTER_SYNTHETIC} \cup dirlist \cup ClassDirs
    ELSE d

fs == <<tree, pool, gen_i, dest_dirs, dest, disk>>

hist == <<gen_calls, pool0, dest0, copied, assembled, stale, rerun_same, prev_counts,
          disk0>>

\* the phases of setup_data_generation and the template matcher, each studied
\* in a specification of its own
stages == <<lx, sel, cp, tm, px>>

\* move on to the statement after step; reaching the end of the script ends
\* the process with status 0
Goto(step) ==
    /\ pc' = After(step)
    /\ exit_status' = IF After(step) = "done" THEN 0 ELSE exit_status
    /\ error' = error

\* print(msg); exit()
Exit(msg) ==
    /\ stdout' = Append(stdout, msg)
    /\ exit_status' = ExitStatus(None)
    /\ pc' = "exited"
    /\ error' = error

\* an uncaught exception ends the process with status 1
Raise(exception) ==
    /\ pc' = "crashed"
    /\ error' = exception
    /\ exit_status' = 1

\* lines 655-656
CreateDirs ==
    /\ pc = "create_dirs"
    /\ stdout' = Append(stdout, "Creating Synthetic data directories")
    /\ tree' = TRUE
    /\ disk' = CreateSyntheticDataDirs(disk)
    /\ Goto("create_dirs")
    /\ UNCHANGED <<args, pool, gen_i, dest_dirs, dest, hist, stages>>

\* lines 658-663
CheckRatio ==
    /\ pc = "check_ratio"
    /\ IF RatioInvalid(args)
       THEN Exit(MSG_RATIO)
       ELSE Goto("check_ratio") /\ UNCHANGED stdout
    /\ UNCHANGED <<args, fs, hist, stages>>

\* lines 665-671
CheckSetRatio ==
    /\ pc = "check_pair"
    /\ IF args.no_combine = FALSE /\ SetRatioMismatch(args)
       THEN Exit(MSG_PAIR)
       ELSE Goto("check_pair") /\ UNCHANGED stdout
    /\ UNCHANGED <<args, fs, hist, stages>>

\* lines 673-696
CheckCeiling ==
    /\ pc = "check_ceiling"
    /\ IF args.no_combine = FALSE /\ FirstTooLarge(args) # None
       THEN Exit(CeilingMsg(FirstTooLarge(args)))
       ELSE Goto("check_ceiling") /\ UNCHANGED stdout
    /\ UNCHANGED <<args, fs, hist, stages>>

\* lines 698-704: the pool check, and the call of setup_data_generation(n)
CheckPool ==
    /\ pc = "check_pool"
    /\ IF NeedGeneration(pool, TotalN(args))
       THEN /\ pc' = "generate"
            /\ gen_i' = 0
            /\ gen_calls' = gen_calls + 1
            /\ UNCHANGED <<exit_status, error>>
       ELSE /\ Goto("check_pool")
            /\ UNCHANGED <<gen_i, gen_calls>>
    /\ UNCHANGED <<args, stdout, tree, pool, dest_dirs, dest,
                   pool0, dest0, copied, assembled, stale, rerun_same, prev_counts,
                   disk, disk0, stages>>

\* lines 197-267: one class of generate_synthetic_data's outer loop
GenerateClass ==
    /\ pc = "generate"
    /\ pool' = [pool EXCEPT ![class_names[gen_i + 1]] = @ \cup Written(gen_i, TotalN(args))]
    /\ IF IndexError(gen_i, TotalN(args))
       THEN Raise("IndexError") /\ UNCHANGED gen_i
       ELSE IF gen_i + 1 < Len(class_names)
       THEN gen_i' = gen_i + 1 /\ UNCHANGED <<pc, exit_status, error>>
       ELSE Goto("check_pool") /\ UNCHANGED gen_i
    /\ UNCHANGED <<args, stdout, tree, dest_dirs, dest, disk, hist, stages>>

\* lines 706-708 and 576-629: create_synthetic_dataset
Assemble ==
    /\ pc = "assemble"
    /\ \E order \in ListOrders :
         LET cleared == ClearSplits(dest, dest_dirs)
             synthetic == CopySynthetic(cleared, args, pool, order)
         IN  /\ IF DividesByZero(args)
                THEN /\ dest' = synthetic
                     /\ copied' = CopySynthetic(EmptyDirs, args, pool, order)
                     /\ Raise("ZeroDivisionError")
                ELSE /\ dest' = CopyReal(synthetic, args, order)
                     /\ copied' = CopyReal(CopySynthetic(EmptyDirs, args, pool, order),
                                           args, order)
                     /\ Goto("assemble")
    /\ dest_dirs' = Splits
    /\ assembled' = TRUE
    /\ stale' = \E s \in Splits, c \in Classes : ~(dest[s][c] \subseteq copied'[s][c])
    /\ dest0' = EmptyDirs
    /\ UNCHANGED <<args, stdout, tree, pool, gen_i, gen_calls, pool0,
                   rerun_same, prev_counts, disk, disk0, stages>>

NoArgs ==
    [train_set |-> 0, train_ratio |-> 0, val_set |-> 0, val_ratio |-> 0,
     test_set |-> 0, test_ratio |-> 0, no_combine |-> FALSE]

\* a fresh process: nothing printed, no status yet, the histories of the run reset
Fresh ==
    /\ pc' = "create_dirs"
    /\ stdout' = <<>>
    /\ exit_status' = Running
    /\ error' = "none"
    /\ gen_calls' = 0
    /\ pool0' = pool
    /\ dest0' = dest
    /\ copied' = EmptyDirs
    /\ assembled' = FALSE
    /\ stale' = FALSE
    /\ disk0' = disk
    /\ UNCHANGED <<fs, stages>>

\* the program is started with a command line of A on the filesystem as it is
Launch(A) ==
    /\ pc = "idle"
    /\ \E a \in A : args' = a
    /\ rerun_same' = FALSE
    /\ prev_counts' = None
    /\ Fresh

\* the program is started again right after a completed run, same command line
RunAgain ==
    /\ pc = "done"
    /\ args' = args
    /\ rerun_same' = TRUE
    /\ prev_counts' = Counts(dest)
    /\ Fresh

\* the process is gone; only the filesystem remains
ProcessEnd ==
    /\ Ended
    /\ pc' = "idle"
    /\ args' = NoArgs
    /\ stdout' = <<>>
    /\ exit_status' = Running
    /\ error' = "none"
    /\ gen_i' = 0
    /\ gen_calls' = 0
    /\ pool0' = EmptyPool
    /\ dest0' = EmptyDirs
    /\ copied' = EmptyDirs
    /\ assembled' = FALSE
    /\ stale' = FALSE
    /\ rerun_same' = FALSE
    /\ prev_counts' = None
    /\ disk0' = None
    /\ UNCHANGED <<tree, pool, dest_dirs, dest, disk, stages>>

\* no phase of the generation and no template match is under way
StagesIdle ==
    /\ lx = None
    /\ sel = None
    /\ cp = None
    /\ tm = None
    /\ px = None

\* no process is running
DriverIdle ==
    /\ args = NoArgs
    /\ pc = "idle"
    /\ stdout = <<>>
    /\ exit_status = Running
    /\ error = "none"
    /\ gen_i = 0
    /\ gen_calls = 0
    /\ pool0 = EmptyPool
    /\ dest0 = EmptyDirs
    /\ copied = EmptyDirs
    /\ assembled = FALSE
    /\ stale = FALSE
    /\ rerun_same = FALSE
    /\ prev_counts = None
    /\ disk0 = None

\* before the first run: no synthetic tree, no assembled dataset
Init ==
    /\ DriverIdle
    /\ tree = FALSE
    /\ pool = EmptyPool
    /\ dest_dirs = {}
    /\ dest = EmptyDirs
    /\ disk = {RAW_DATA}
    /\ StagesIdle

Next ==
    \/ Launch(RunArgs)
    \/ CreateDirs
    \/ CheckRatio
    \/ CheckSetRatio
    \/ CheckCeiling
    \/ CheckPool
    \/ GenerateClass
    \/ Assemble
    \/ RunAgain
    \/ ProcessEnd

Spec == Init /\ [][Next]_vars

\* one run of the whole program on a new filesystem
NextOnce ==
    \/ Launch(OnceArgs)
    \/ CreateDirs
    \/ CheckRatio
    \/ CheckSetRatio
    \/ CheckCeiling
    \/ CheckPool
    \/ GenerateClass
    \/ Assemble

SpecOnce == Init /\ [][NextOnce]_vars

\* one run of the configuration checks, on command lines around the ceilings
NextValidate ==
    \/ Launch(ValidateArgs)
    \/ CreateDirs
    \/ CheckRatio
    \/ CheckSetRatio
    \/ CheckCeiling

SpecValidate == Init /\ [][NextValidate]_vars

\* a command line the first check rejects: the run makes the directories and ends
DirsArgs == {[NoArgs EXCEPT !.train_ratio = 101]}

\* raw_data exists; the synthetic tree is absent, partial or whole
InitDirs ==
    /\ DriverIdle
    /\ disk \in Trees
    /\ tree = (NTZ_FILTER_SYNTHETIC \in disk)
    /\ pool = EmptyPool
    /\ dest_dirs = {}
    /\ dest = EmptyDirs
    /\ StagesIdle

\* runs of the program on any such tree, as far as the first check
NextDirs ==
    \/ Launch(DirsArgs)
    \/ CreateDirs
    \/ CheckRatio
    \/ ProcessEnd

SpecDirs == InitDirs /\ [][NextDirs]_vars

----------------------------------------------------------------------------
(* Properties *)

LastPrinted == IF stdout = <<>> THEN None ELSE stdout[Len(stdout)]

Rejected(msg) == pc = "exited" /\ LastPrinted = msg

CeilingMsgs == {MSG_TRAIN, MSG_VAL, MSG_TEST}

\* the run has executed the ratio range check
RatioChecked == pc \notin {"idle", "create_dirs", "check_ratio"}

\* the run has executed the count/ratio consistency check
PairChecked == RatioChecked /\ pc # "check_pair" /\ ~Rejected(MSG_RATIO)

\* the run has executed the ceiling checks
CeilingChecked == PairChecked /\ pc # "check_ceiling" /\ ~Rejected(MSG_PAIR)

\* the ratio of the split lies strictly between 0 and 1
Mixed(s) == RatioOf(args, s) > 0 /\ RatioOf(args, s) < 100

\* round(count / ratio) - count exceeds the split's ceiling
RoundedExceeds(s) ==
    Mixed(s) /\ PyRound(<<100 * SetOf(args, s), RatioOf(args, s)>>) - SetOf(args, s) > Ceiling(s)

\* count / ratio - count, not rounded, exceeds the split's ceiling
ExactExceeds(s) ==
    Mixed(s) /\ SetOf(args, s) * (100 - RatioOf(args, s)) > Ceiling(s) * RatioOf(args, s)

RealIn(files) == {f \in files : f[1] = "real"}

SyntheticIn(files) == {f \in files : f[1] = "synthetic"}

\* C1 as stated: in combine mode a run that reaches the ceiling checks is rejected
\* with a ceiling diagnostic exactly when, for some split with 0 < ratio < 1,
\* round(count / ratio) - count exceeds the split's ceiling (48, 6, 6).
C1_RoundedCeiling ==
    (CeilingChecked /\ args.no_combine = FALSE)
        => ((pc = "exited" /\ LastPrinted \in CeilingMsgs)
                <=> \E s \in Splits : RoundedExceeds(s))

\* C1 amended: in combine mode a run that reaches the ceiling checks is rejected
\* with a ceiling diagnostic exactly when, for some split with 0 < ratio < 1, the
\* unrounded value (count / ratio) * (1 - ratio) exceeds the split's ceiling; the
\* diagnostic names the first such split in the order train, val, test.
C1_ExactCeiling ==
    (CeilingChecked /\ args.no_combine = FALSE)
        => /\ (pc = "exited" /\ LastPrinted \in CeilingMsgs)
                  <=> \E s \in Splits : ExactExceeds(s)
           /\ Rejected(MSG_TRAIN) <=> ExactExceeds("train")
           /\ Rejected(MSG_VAL) <=> (~ExactExceeds("train") /\ ExactExceeds("val"))
           /\ Rejected(MSG_TEST) <=>
                  (~ExactExceeds("train") /\ ~ExactExceeds("val") /\ ExactExceeds("test"))

\* val_n = 7 at ratio 0.52 needs round(13.46) - 7 = 6 real samples, yet is rejected
C1_Witness ==
    /\ Rejected(MSG_VAL)
    /\ args.val_set = VAL_CEILING + 1
    /\ args.val_ratio = 52
    /\ ~RoundedExceeds("val")

\* C2: a run is rejected by the ratio check exactly when the ratio of at least one
\* of the three splits is below 0 or above 1, whatever the other arguments are;
\* ratios of exactly 0 and exactly 1 pass this check.
C2_RatioRange ==
    RatioChecked
        => (Rejected(MSG_RATIO)
                <=> \E s \in Splits : RatioOf(args, s) < 0 \/ RatioOf(args, s) > 100)

\* only the test ratio is out of range, the other two sit on the bounds 0 and 1
C2_Witness ==
    /\ Rejected(MSG_RATIO)
    /\ args.no_combine
    /\ args.train_ratio = 0
    /\ args.val_ratio = 100
    /\ args.test_ratio = 101

\* C3: a run that reaches the count/ratio check is rejected by it exactly when
\* combine mode is on and some split has exactly one of (count, ratio) equal to
\* zero; and in combine mode set / ratio is never evaluated with ratio = 0.
C3_PairCheck ==
    /\ PairChecked
           => (Rejected(MSG_PAIR)
                   <=> /\ args.no_combine = FALSE
                       /\ \E s \in Splits : (SetOf(args, s) = 0) # (RatioOf(args, s) = 0))
    /\ error # "ZeroDivisionError"
    /\ (assembled /\ args.no_combine = FALSE)
           => \A s \in Splits : SetOf(args, s) # 0 => RatioOf(args, s) # 0

\* a combine-mode run whose only inconsistent pair is the test split's
C3_Witness ==
    /\ Rejected(MSG_PAIR)
    /\ args.train_set # 0 /\ args.train_ratio # 0
    /\ args.val_set = 0 /\ args.val_ratio = 0
    /\ args.test_set # 0 /\ args.test_ratio = 0

\* C4 as stated: a run rejected for a configuration violation has printed a
\* diagnostic and ended with a nonzero exit status.
C4_NonzeroExit ==
    pc = "exited"
        => /\ LastPrinted \in {MSG_RATIO, MSG_PAIR} \cup CeilingMsgs
           /\ exit_status # 0

\* C5: a run rejected for a configuration violation has called neither
\* setup_data_generation nor create_synthetic_dataset, and the synthetic pool and
\* the assembled dataset are as they were when the run started.
C5_AbortBeforeWork ==
    pc = "exited"
        => /\ gen_calls = 0
           /\ ~assembled
           /\ pool = pool0
           /\ dest = dest0

\* a ceiling violation on a filesystem with a pool too small for the request and
\* an assembled dataset of an earlier run
C5_Witness ==
    /\ Rejected(MSG_VAL)
    /\ \E c \in Classes : Cardinality(pool[c]) < TotalN(args)
    /\ \E c \in Classes : pool[c] # {}
    /\ \E s \in Splits, c \in Classes : dest[s][c] # {}

\* C6: after a completed run every class directory of train, val and test holds
\* only files that this run copied.
C6_OnlyLatestRun ==
    pc = "done" => \A s \in Splits, c \in Classes : dest[s][c] \subseteq copied[s][c]

\* the run removed files of an earlier run that it did not copy again
C6_Witness == pc = "done" /\ stale

\* C7: a completed run that directly follows a completed run with the same
\* arguments leaves, for every split and class, as many files as that run left.
C7_IdempotentCounts ==
    (pc = "done" /\ rerun_same) => Counts(dest) = prev_counts

\* the second run reused the pool and replaced some of the first run's files
C7_Witness ==
    /\ pc = "done"
    /\ rerun_same
    /\ stale
    /\ gen_calls = 0
    /\ TotalN(args) > 0

\* C8: a run that reaches the pool check calls setup_data_generation exactly when
\* the pool of some class held fewer than n samples, never more than once; after
\* a generation that returned, every class holds the n samples written for it;
\* without generation the pool is as it was.
C8_GenerateIffPoolShort ==
    /\ gen_calls <= 1
    /\ pc \in {"generate", "assemble", "done", "crashed"}
           => (gen_calls = 1 <=> \E c \in Classes : Cardinality(pool0[c]) < TotalN(args))
    /\ (pc \in {"assemble", "done"} /\ gen_calls = 1)
           => \A i \in 1..Len(class_names) : \A j \in 0..(TotalN(args) - 1) :
                  (i - 1) * Len(class_names) + j \in pool[class_names[i]]
    /\ (pc \in {"assemble", "done"} /\ gen_calls = 0) => pool = pool0

\* generation is called although the first class listed already holds n samples
C8_Witness ==
    /\ pc = "generate"
    /\ gen_calls = 1
    /\ TotalN(args) > 0
    /\ Cardinality(pool0[class_names[1]]) >= TotalN(args)

\* C9 as stated: after a completed no-combine run no file of the real dataset is
\* in any destination directory.
C9_NoRealCopied ==
    (pc = "done" /\ args.no_combine)
        => \A s \in Splits, c \in Classes : RealIn(dest[s][c]) = {}

\* C9 amended: after a completed no-combine run every destination directory
\* holds every file of the real dataset of its split and class.
C9_AllRealCopied ==
    (pc = "done" /\ args.no_combine)
        => \A s \in Splits, c \in Classes :
               RealIn(dest[s][c]) = {<<"real", k>> : k \in RealFiles(s, c)}

\* a no-combine run with synthetic samples requested and real files copied
C9_Witness ==
    /\ pc = "done"
    /\ args.no_combine
    /\ args.train_set > 0
    /\ RealIn(dest["train"]["no_fail"]) # {}
    /\ SyntheticIn(dest["train"]["no_fail"]) # {}

\* the real files of split s and class c that a completed combine run copied
\* number k (or all of them when count = 0)
RealCountIs(s, c, k) ==
    IF SetOf(args, s) = 0
    THEN RealIn(dest[s][c]) = {<<"real", f>> : f \in RealFiles(s, c)}
    ELSE (SetOf(args, s) > 0 /\ k <= Cardinality(RealFiles(s, c)))
             => Cardinality(RealIn(dest[s][c])) = k

\* C10 as stated: a completed combine run copies round(count / ratio) - count real
\* samples into every split with count > 0, and all of them when count = 0.
C10_RoundedRealCount ==
    (pc = "done" /\ args.no_combine = FALSE)
        => \A s \in Splits, c \in Classes :
               RealCountIs(s, c, PyRound(<<100 * SetOf(args, s), Max(RatioOf(args, s), 1)>>)
                                     - SetOf(args, s))

\* C10 amended: a completed combine run copies int(count / ratio) - count real
\* samples (the quotient truncated, not rounded) into every split with count > 0:
\* 0 at ratio 1, count at ratio 0.5; and all real samples when count = 0.
C10_TruncatedRealCount ==
    (pc = "done" /\ args.no_combine = FALSE)
        => \A s \in Splits, c \in Classes :
               /\ RealCountIs(s, c, ((100 * SetOf(args, s)) \div Max(RatioOf(args, s), 1))
                                        - SetOf(args, s))
               /\ (SetOf(args, s) > 0 /\ RatioOf(args, s) = 100) => RealIn(dest[s][c]) = {}
               /\ (SetOf(args, s) > 0 /\ RatioOf(args, s) = 50
                     /\ SetOf(args, s) <= Cardinality(RealFiles(s, c)))
                      => Cardinality(RealIn(dest[s][c])) = SetOf(args, s)

\* one synthetic validation sample at ratio 0.52: 1 / 0.52 = 1.92 is truncated to
\* 1, so no real sample is copied, where rounding would give one
C10_Witness ==
    /\ pc = "done"
    /\ args.no_combine = FALSE
    /\ args.val_set = 1
    /\ args.val_ratio = 52
    /\ RealIn(dest["val"]["no_fail"]) = {}
    /\ args.train_set > 0
    /\ args.train_ratio = 50
    /\ Cardinality(RealIn(dest["train"]["no_fail"])) = args.train_set

----------------------------------------------------------------------------
(* Phase 1, get_removed_label *)

\* The part of an image a gate looks at is written as its histogram: a
\* function from the grey intensities that occur in it to the number of
\* pixels that have each.  A condition on a pixel value (the lambda handed to
\* check_incorrect_match) is written as the set of values that satisfy it.

Intensities == 0..255

\* lambda x: x < k
Below(k) == {x \in Intensities : x < k}

RECURSIVE SumOver(_, _)
SumOver(region, values) ==
    IF values = {} THEN 0
    ELSE LET v == CHOOSE x \in values : TRUE
         IN  region[v] + SumOver(region, values \ {v})

\* lines 411-433: the number of pixels of the region that meet the condition
CheckIncorrectMatch(region, condition) ==
    SumOver(region, DOMAIN region \cap condition)

\* line 76: the intensity below which a pixel of the crop counts as label
LABEL_INTENSITY == 220

\* line 79: the bounds of the label's pixel count
LABEL_PIXELS_MIN == 1000

LABEL_PIXELS_MAX == 3000

\* a variant that accepts the two bounds themselves
LabelMatchedInclusive(label_pixels) ==
    label_pixels <= LABEL_PIXELS_MAX /\ label_pixels >= LABEL_PIXELS_MIN

\* line 79: if label_pixels < 3000 and label_pixels > 1000
LabelMatched(label_pixels) ==
    label_pixels < LABEL_PIXELS_MAX /\ label_pixels > LABEL_PIXELS_MIN

\* a variant that inpaints the photographs of every class
LabelRemovedClassAny(class_name) == class_name \in Classes

\* line 84: the classes whose photographs go on to the filter selector
LabelRemovedClass(class_name) ==
    class_name = "fail_label_not_fully_printed" \/ class_name = "no_fail"

\* line 80: where the crop of a photograph is saved
ClassLabelPath(photo) == Join(Join(CLASS_LABELS_PATH, photo.class_name), photo.file)

\* line 89: where the photograph without its label is saved
LabelRemovedPath(photo) == Join(FILTER_REMOVED_PATH, photo.file)

\* img.save(path): the file at path now holds content
Save(store, path, content) ==
    {e \in store : e[1] # path} \cup {<<path, content>>}

\* the number of photographs of data/NTZFilter a run is followed on
MaxPhotos == 2

PhotoNames == {"1.png", "2.png"}

\* data/NTZFilter/data_type/class_name/file
Photos == [data_type : Splits, class_name : Classes, file : PhotoNames]

RECURSIVE SubsetsUpTo(_, _)
SubsetsUpTo(S, k) ==
    IF k = 0 THEN {{}}
    ELSE LET smaller == SubsetsUpTo(S, k - 1)
         IN  smaller \cup {t \cup {x} : t \in smaller, x \in S}

\* the crops the matcher can hand back: darker-than-220 counts on and next to
\* the two bounds, among lighter pixels
LabelBoxes ==
    {(LABEL_INTENSITY - 1 :> n) @@ (LABEL_INTENSITY :> LABEL_PIXELS_MIN) :
        n \in {LABEL_PIXELS_MIN, LABEL_PIXELS_MIN + 1,
                LABEL_PIXELS_MAX - 1, LABEL_PIXELS_MAX}}

\* position of a value in a tuple of distinct values
IndexOf(seq, x) == CHOOSE i \in 1..Len(seq) : seq[i] = x

\* lines 61-66: the loops go through the splits, then the classes, in the
\* order of the two lists; os.listdir orders the files of one directory
Before(p, q) ==
    \/ IndexOf(data_types, p.data_type) < IndexOf(data_types, q.data_type)
    \/ /\ p.data_type = q.data_type
       /\ IndexOf(class_names, p.class_name) < IndexOf(class_names, q.class_name)

\* lines 66-90: one photograph of the loop
ExtractLabel ==
    /\ \E photo \in lx.todo :
         /\ \A q \in lx.todo : ~Before(q, photo)
         /\ LET label_box == lx.label_box[photo]
                label_pixels == CheckIncorrectMatch(label_box, Below(LABEL_INTENSITY))
                saved == LabelMatched(label_pixels)
                removed == saved /\ LabelRemovedClass(photo.class_name)
            IN  lx' = [lx EXCEPT
                    !.todo = @ \ {photo},
                    !.done = Append(@, photo),
                    !.class_labels =
                        IF saved THEN Save(@, ClassLabelPath(photo), photo) ELSE @,
                    !.label_removed =
                        IF removed THEN Save(@, LabelRemovedPath(photo), photo) ELSE @,
                    !.saves =
                        IF saved THEN @ \cup {<<photo, ClassLabelPath(photo)>>} ELSE @,
                    !.removes =
                        IF removed THEN @ \cup {<<photo, LabelRemovedPath(photo)>>}
                        ELSE @]
    /\ UNCHANGED <<args, pc, stdout, exit_status, error, fs, hist, sel, cp, tm, px>>

\* get_removed_label is called on a dataset of at most MaxPhotos photographs,
\* the intermediate directories being empty
InitExtract ==
    /\ DriverIdle
    /\ tree = TRUE
    /\ disk = WholeTree
    /\ pool = EmptyPool
    /\ dest_dirs = {}
    /\ dest = EmptyDirs
    /\ sel = None /\ cp = None /\ tm = None /\ px = None
    /\ \E dataset \in SubsetsUpTo(Photos, MaxPhotos) :
         \E boxes \in [dataset -> LabelBoxes] :
            lx = [label_box |-> boxes, todo |-> dataset, done |-> <<>>,
                  class_labels |-> {}, label_removed |-> {},
                  saves |-> {}, removes |-> {}]

NextExtract == ExtractLabel

SpecExtract == InitExtract /\ [][NextExtract]_vars

----------------------------------------------------------------------------
(* Phase 2, get_selected_filter *)

\* lines 110-111, by the part of the file name that tells them apart
cylinder_templates == <<"r", "l1", "l2">>

\* line 131: the intensity below which a pixel of the matched box is cylinder
CYLINDER_INTENSITY == 60

\* line 133: the count the cylinder's pixels must exceed
CYLINDER_PIXELS_MIN == 200

\* line 169: pixels of the composite below this intensity are black
BLACK_INTENSITY == 1

\* line 170: the count the composite's black pixels must stay below
BLACK_PIXELS_MAX == 1500

\* line 133: if cylinder_pixels > 200
CylinderMatched(cylinder_pixels) == cylinder_pixels > CYLINDER_PIXELS_MIN

\* line 170: if black_pixels < 1500
CombinedAccepted(black_pixels) == black_pixels < BLACK_PIXELS_MAX

\* a variant that leaves the loop as soon as a cylinder box passes its gate
BreakOnCylinder(cylinder_pixels, black_pixels) == CylinderMatched(cylinder_pixels)

\* a variant that never leaves the loop early
BreakNever(cylinder_pixels, black_pixels) == FALSE

\* line 175: the break stands inside both tests
Break(cylinder_pixels, black_pixels) ==
    CylinderMatched(cylinder_pixels) /\ CombinedAccepted(black_pixels)

\* line 172: name = file + ".bmp"
BmpName(file) == <<file, ".bmp">>

\* the boxes the matcher can hand back for a cylinder template: cylinder
\* pixel counts on and next to the bound
CylinderBoxes ==
    {(CYLINDER_INTENSITY - 1 :> n) @@ (CYLINDER_INTENSITY :> CYLINDER_PIXELS_MIN) :
        n \in {CYLINDER_PIXELS_MIN, CYLINDER_PIXELS_MIN + 1}}

\* the composites that can result: black pixel counts on and next to the bound
CombinedImages ==
    {(BLACK_INTENSITY - 1 :> n) @@ (BLACK_INTENSITY :> BLACK_PIXELS_MAX) :
        n \in {BLACK_PIXELS_MAX - 1, BLACK_PIXELS_MAX}}

\* box of the cutoff template in a photograph (top left, bottom right)
CutoffBoxes == {<<<<40, 10>>, <<90, 70>>>>}

Candidates == 1..Len(cylinder_templates)

\* box of a cylinder template in a photograph: right of the cutoff box and
\* apart from it
CylinderPlaces == {<<<<100, 20>>, <<130, 60>>>>}

\* lines 135-136: the union of the two boxes, in the photograph
TopLeftCC(f, c) == <<Min(f[1][1], c[1][1]), Min(f[1][2], c[1][2])>>

BottomRightCC(f, c) == <<Max(f[2][1], c[2][1]), Max(f[2][2], c[2][2])>>

\* lines 139-140: (width, height) of the composite
CombinedSize(f, c) ==
    <<BottomRightCC(f, c)[1] - TopLeftCC(f, c)[1],
      BottomRightCC(f, c)[2] - TopLeftCC(f, c)[2]>>

\* lines 154-158: the strip cropped for a cylinder on the right side
RightStrip(f, c) ==
    IF f[1][1] # 0 /\ f[2][1] # c[1][1]
    THEN {<<<<f[2][1], c[1][2]>>, <<c[1][1], c[2][2]>>>>}
    ELSE {}

\* lines 161-165: the strip cropped for a cylinder on the left side
LeftStrip(f, c) ==
    IF f[2][1] # 0 /\ f[1][1] # c[2][1]
    THEN {<<<<c[2][1], c[1][2]>>, <<f[1][1], c[2][2]>>>>}
    ELSE {}

\* img.crop of a box whose right is less than its left, or lower than upper:
\* a Pillow that checks the box raises ValueError, one that does not gives
\* an image without pixels
Inverted(box) == box[2][1] < box[1][1] \/ box[2][2] < box[1][2]

\* no composite built yet for a file
NotMade == [built |-> FALSE, top_left_cc |-> <<0, 0>>, size |-> <<0, 0>>,
            cutoff |-> <<<<0, 0>>, <<0, 0>>>>, cylinder |-> <<<<0, 0>>, <<0, 0>>>>,
            strips |-> {}]

\* line 113: the next file of the listing
NextFile ==
    /\ sel.error = "none"
    /\ sel.file = None
    /\ \E file \in sel.todo :
         sel' = [sel EXCEPT !.file = file, !.k = 1, !.todo = @ \ {file}]
    /\ UNCHANGED <<args, pc, stdout, exit_status, error, fs, hist, lx, cp, tm, px>>

\* lines 124-176: one cylinder template tried on the current file
MatchCylinder ==
    /\ sel.error = "none"
    /\ sel.file # None
    /\ LET file == sel.file
           cylinder_pixels ==
               CheckIncorrectMatch(sel.cylinder[file][sel.k], Below(CYLINDER_INTENSITY))
           black_pixels ==
               CheckIncorrectMatch(sel.combined[file][sel.k], Below(BLACK_INTENSITY))
           f == sel.cutoff[file]
           c == sel.cylinder_box[file][sel.k]
           strips == RightStrip(f, c) \cup LeftStrip(f, c)
           made == [built |-> TRUE, top_left_cc |-> TopLeftCC(f, c),
                    size |-> CombinedSize(f, c), cutoff |-> f, cylinder |-> c,
                    strips |-> strips]
           succes == CylinderMatched(cylinder_pixels) /\ CombinedAccepted(black_pixels)
           name == BmpName(file)
           last == Break(cylinder_pixels, black_pixels) \/ sel.k = Len(cylinder_templates)
       IN  \E raises \in (IF CylinderMatched(cylinder_pixels)
                                /\ \E box \in strips : Inverted(box)
                            THEN BOOLEAN ELSE {FALSE}) :
             IF raises
             THEN sel' = [sel EXCEPT
                     !.evaluated[file] = Append(@, sel.k),
                     !.made[file] = made,
                     !.error = "ValueError"]
             ELSE sel' = [sel EXCEPT
                     !.evaluated[file] = Append(@, sel.k),
                     !.made[file] = IF CylinderMatched(cylinder_pixels) THEN made ELSE @,
                     !.succes_count = IF succes THEN @ + 1 ELSE @,
                     !.filter_coordinates =
                         IF succes THEN Save(@, name, sel.cutoff[file]) ELSE @,
                     !.filter_selected =
                         IF succes THEN Save(@, name, <<file, sel.k>>) ELSE @,
                     !.saves = IF succes THEN Append(@, <<name, sel.k>>) ELSE @,
                     !.file = IF last THEN None ELSE @,
                     !.k = IF last THEN 0 ELSE @ + 1]
    /\ UNCHANGED <<args, pc, stdout, exit_status, error, fs, hist, lx, cp, tm, px>>

\* lines 178-179: the count is printed and the table returned
ReturnCoordinates ==
    /\ sel.error = "none"
    /\ sel.file = None
    /\ sel.todo = {}
    /\ sel.printed = <<>>
    /\ sel' = [sel EXCEPT !.printed = <<sel.succes_count, Cardinality(sel.files)>>]
    /\ UNCHANGED <<args, pc, stdout, exit_status, error, fs, hist, lx, cp, tm, px>>

\* get_selected_filter is entered with this listing and these matches
Entered(files, cylinder, combined, cutoff, cylinder_box, earlier) ==
    [files |-> files, cylinder |-> cylinder, combined |-> combined,
     cutoff |-> cutoff, cylinder_box |-> cylinder_box,
     todo |-> files, file |-> None, k |-> 0,
     evaluated |-> [f \in files |-> <<>>],
     made |-> [f \in files |-> NotMade],
     succes_count |-> 0, filter_coordinates |-> {},
     filter_selected |-> {<<BmpName(f), "earlier">> : f \in earlier},
     saves |-> <<>>, printed |-> <<>>, error |-> "none"]

\* get_selected_filter is called on a listing of label-removed photographs;
\* filter_selected may hold composites of an earlier run
InitSelect ==
    /\ DriverIdle
    /\ tree = TRUE
    /\ disk = WholeTree
    /\ pool = EmptyPool
    /\ dest_dirs = {}
    /\ dest = EmptyDirs
    /\ lx = None /\ cp = None /\ tm = None /\ px = None
    /\ \E files \in SUBSET PhotoNames :
       \E cylinder \in [files -> [Candidates -> CylinderBoxes]] :
       \E combined \in [files -> [Candidates -> CombinedImages]] :
       \E cutoff \in [files -> CutoffBoxes] :
       \E cylinder_box \in [files -> [Candidates -> CylinderPlaces]] :
       \E earlier \in SUBSET {"1.png"} :
          sel = Entered(files, cylinder, combined, cutoff, cylinder_box, earlier)

NextSelect ==
    \/ NextFile
    \/ MatchCylinder
    \/ ReturnCoordinates

SpecSelect == InitSelect /\ [][NextSelect]_vars

\* boxes the cutoff template can be matched at: inside the photograph and on
\* its left edge
CombineCutoffs == {<<<<40, 10>>, <<90, 70>>>>, <<<<0, 10>>, <<50, 70>>>>}

\* boxes a cylinder template can be matched at: right of the cutoff box apart
\* from it and against it, left of it apart from it and against it, and
\* right of it reaching above it
CombinePlaces ==
    {<<<<100, 20>>, <<130, 60>>>>, <<<<90, 20>>, <<120, 60>>>>,
     <<<<5, 20>>, <<30, 60>>>>, <<<<10, 20>>, <<40, 60>>>>,
     <<<<100, 0>>, <<130, 60>>>>}

\* get_selected_filter on one photograph, over the places of the two boxes
InitCombine ==
    /\ DriverIdle
    /\ tree = TRUE
    /\ disk = WholeTree
    /\ pool = EmptyPool
    /\ dest_dirs = {}
    /\ dest = EmptyDirs
    /\ lx = None /\ cp = None /\ tm = None /\ px = None
    /\ \E cylinder \in [{"1.png"} -> [Candidates -> CylinderBoxes]] :
       \E combined \in [{"1.png"} -> [Candidates -> CombinedImages]] :
       \E cutoff \in [{"1.png"} -> CombineCutoffs] :
       \E cylinder_box \in [{"1.png"} -> [Candidates -> CombinePlaces]] :
          sel = Entered({"1.png"}, cylinder, combined, cutoff, cylinder_box, {})

SpecCombine == InitCombine /\ [][NextSelect]_vars

----------------------------------------------------------------------------
(* Phase 3, generate_synthetic_data: the label is placed on the filter *)

\* line 216
pix_to_edge == 15

\* random.randint(a, b): the values it can return; none when b < a, and then
\* the call raises ValueError
RandInt(a, b) == a..b

\* a variant that draws the horizontal offset at random for every class
XOffsetsRandom(class_name, size0, w_filter, w_label) ==
    RandInt(pix_to_edge, w_filter - w_label - pix_to_edge)

\* lines 219-222: the horizontal offsets the label can get
XOffsets(class_name, size0, w_filter, w_label) ==
    IF class_name = "fail_label_half_printed"
    THEN {size0 - w_filter}
    ELSE RandInt(pix_to_edge, w_filter - w_label - pix_to_edge)

\* line 223: the vertical offsets the label can get
YOffsets(h_filter, h_label) == RandInt(pix_to_edge, h_filter - h_label - pix_to_edge)

\* width and height of the region of the filter that bears the label
RegionWidth == 50

RegionHeight == 40

\* lines 259-260: the rows at the top and at the bottom of the background
\* that the composite keeps off
TOP_MARGIN == 60

BOTTOM_MARGIN == 30

\* a variant that keeps off the top rows only
BackgroundYOffsetsTopOnly(h_background, size1) ==
    RandInt(TOP_MARGIN, h_background - size1)

\* line 259: the horizontal offsets the composite can get on the background
BackgroundXOffsets(w_background, size0) == RandInt(0, w_background - size0)

\* line 260: the vertical offsets the composite can get on the background
BackgroundYOffsets(h_background, size1) ==
    RandInt(TOP_MARGIN, h_background - size1 - BOTTOM_MARGIN)

\* the composites followed: the region alone, the region with the cylinder
\* on its right, on its left, and with a cylinder box that reaches above it;
\* region_x, region_y is where the region sits in the composite
Composites ==
    {[size0 |-> RegionWidth + h[1], region_x |-> h[2],
      size1 |-> RegionHeight + v[1], region_y |-> v[2]] :
        h \in {<<0, 0>>, <<10, 0>>, <<10, 10>>}, v \in {<<0, 0>>, <<10, 10>>}}

\* by how much a label or a background misses the size that leaves no play
Play == {0 - 1, 0, 1}

\* the samples followed: labels that leave one pixel of play inside the
\* margins, none, or lack one; backgrounds that leave the composite one pixel
\* of play, none, or lack one
Placements ==
    {[class_name |-> class_name,
      w_filter |-> RegionWidth, h_filter |-> RegionHeight,
      w_label |-> RegionWidth - 2 * pix_to_edge + l[1],
      h_label |-> RegionHeight - 2 * pix_to_edge + l[2],
      size0 |-> composite.size0, size1 |-> composite.size1,
      region_x |-> composite.region_x, region_y |-> composite.region_y,
      w_background |-> composite.size0 + b[1],
      h_background |-> composite.size1 + TOP_MARGIN + BOTTOM_MARGIN + b[2]] :
        class_name \in Classes, l \in Play \X Play,
        composite \in Composites, b \in Play \X Play}

\* lines 212-246: the offsets are drawn and the label is pasted; the label
\* lies inside the composite for every sample followed
PlaceLabel ==
    /\ cp.state = "ready"
    /\ LET xs == XOffsets(cp.class_name, cp.size0, cp.w_filter, cp.w_label)
           ys == YOffsets(cp.h_filter, cp.h_label)
       IN  IF xs = {} \/ ys = {}
           THEN cp' = [cp EXCEPT !.state = "failed", !.error = "ValueError"]
           ELSE \E x \in xs, y \in ys :
                   cp' = [cp EXCEPT !.state = "pasted", !.x = x, !.y = y]
    /\ UNCHANGED <<args, pc, stdout, exit_status, error, fs, hist, lx, sel, tm, px>>

\* lines 251-267: the offsets on the background are drawn, the composite is
\* pasted and the sample saved
PlaceOnBackground ==
    /\ cp.state = "pasted"
    /\ cp.background = "open"
    /\ LET xs == BackgroundXOffsets(cp.w_background, cp.size0)
           ys == BackgroundYOffsets(cp.h_background, cp.size1)
       IN  IF xs = {} \/ ys = {}
           THEN cp' = [cp EXCEPT !.background = "ValueError"]
           ELSE \E x \in xs, y \in ys :
                   cp' = [cp EXCEPT !.background = "saved",
                                    !.x_background = x, !.y_background = y]
    /\ UNCHANGED <<args, pc, stdout, exit_status, error, fs, hist, lx, sel, tm, px>>

\* one sample of the loop: its class, the region, the label, the composite,
\* the background
InitPlace ==
    /\ DriverIdle
    /\ tree = TRUE
    /\ disk = WholeTree
    /\ pool = EmptyPool
    /\ dest_dirs = {}
    /\ dest = EmptyDirs
    /\ lx = None /\ sel = None /\ tm = None /\ px = None
    /\ \E sample \in Placements :
         cp = [class_name |-> sample.class_name,
               w_filter |-> sample.w_filter, h_filter |-> sample.h_filter,
               w_label |-> sample.w_label, h_label |-> sample.h_label,
               size0 |-> sample.size0, size1 |-> sample.size1,
               region_x |-> sample.region_x, region_y |-> sample.region_y,
               w_background |-> sample.w_background,
               h_background |-> sample.h_background,
               state |-> "ready", error |-> "none", x |-> 0, y |-> 0,
               background |-> "open", x_background |-> 0, y_background |-> 0]

NextPlace ==
    \/ PlaceLabel
    \/ PlaceOnBackground

SpecPlace == InitPlace /\ [][NextPlace]_vars

----------------------------------------------------------------------------
(* get_template_match *)

\* A grey image is the tuple of its rows, each the tuple of its pixels, as
\* the numpy array is; array index k is tuple index k + 1.  A score is a
\* float in the program.  For a patch p and a template t of N pixels it is
\*     N * c / sqrt(v * vt),   c  = N * sum(p * t) - sum(p) * sum(t),
\*                             v  = N * sum(p * p) - sum(p) ^ 2,
\*                             vt = N * sum(t * t) - sum(t) ^ 2,
\* and only its order matters.  The model keeps the integers c and v and
\* orders scores exactly; a division by a zero deviation gives nan.

NaN == [nan |-> TRUE, c |-> 0, v |-> 0]

IsNaN(s) == s.nan

\* grey.shape
Shape(grey) == <<Len(grey), IF Len(grey) = 0 THEN 0 ELSE Len(grey[1])>>

\* grey[y:y + w, x:x + h]
Slice(grey, y, x, w, h) == [i \in 1..w |-> [j \in 1..h |-> grey[y + i][x + j]]]

RECURSIVE SeqSum(_)
SeqSum(seq) == IF seq = <<>> THEN 0 ELSE Head(seq) + SeqSum(Tail(seq))

\* np.sum(a * b) for two arrays of one shape
SumProduct(a, b) ==
    SeqSum([i \in 1..Len(a) |-> SeqSum([j \in 1..Len(a[i]) |-> a[i][j] * b[i][j]])])

Ones(grey) == [i \in 1..Len(grey) |-> [j \in 1..Len(grey[i]) |-> 1]]

Size(grey) == Shape(grey)[1] * Shape(grey)[2]

\* N * N * np.std(grey) ^ 2
Deviation(grey) ==
    Size(grey) * SumProduct(grey, grey)
        - SumProduct(grey, Ones(grey)) * SumProduct(grey, Ones(grey))

\* lines 311-312: the cross-correlation of the normalized patch and template
Score(patch, template) ==
    IF Deviation(patch) = 0 \/ Deviation(template) = 0 THEN NaN
    ELSE [nan |-> FALSE,
          c |-> Size(patch) * SumProduct(patch, template)
                    - SumProduct(patch, Ones(patch)) * SumProduct(template, Ones(patch)),
          v |-> Deviation(patch)]

\* s < t for two scores that are numbers
Less(s, t) ==
    IF s.c < 0 /\ t.c >= 0 THEN TRUE
    ELSE IF s.c >= 0 /\ t.c < 0 THEN FALSE
    ELSE IF s.c >= 0 THEN s.c * s.c * t.v < t.c * t.c * s.v
    ELSE s.c * s.c * t.v > t.c * t.c * s.v

\* np.argmax keeps the first nan it meets, else the first largest value:
\* s takes the place of the running maximum t
Outranks(s, t) ==
    IF IsNaN(t) THEN FALSE
    ELSE IF IsNaN(s) THEN TRUE
    ELSE Less(t, s)

\* a variant that keeps the last of the largest values
ArgMaxLast(flat) ==
    CHOOSE k \in 1..Len(flat) :
        /\ \A j \in 1..Len(flat) : ~Outranks(flat[j], flat[k])
        /\ \A j \in (k + 1)..Len(flat) : Outranks(flat[k], flat[j])

\* np.argmax(match), on the flattened array, counted from 1
ArgMax(flat) ==
    CHOOSE k \in 1..Len(flat) :
        /\ \A j \in 1..Len(flat) : ~Outranks(flat[j], flat[k])
        /\ \A j \in 1..(k - 1) : Outranks(flat[k], flat[j])

\* lines 294-321
GetTemplateMatch(grey_img, grey_template) ==
    LET w == Shape(grey_template)[1]
        h == Shape(grey_template)[2]
        match_shape == <<Shape(grey_img)[1] - w + 1, Shape(grey_img)[2] - h + 1>>
        \* match, flattened row by row: entry k is match[y, x]
        flat == [k \in 1..(match_shape[1] * match_shape[2]) |->
                    LET y == (k - 1) \div match_shape[2]
                        x == (k - 1) % match_shape[2]
                    IN  Score(Slice(grey_img, y, x, w, h), grey_template)]
        best == ArgMax(flat) - 1
        \* x, y = np.unravel_index(np.argmax(match), match_shape)
        x == best \div match_shape[2]
        y == best % match_shape[2]
    IN  IF match_shape[1] < 0 \/ match_shape[2] < 0
        THEN [error |-> "ValueError", top_left |-> <<>>, bottom_right |-> <<>>]
        ELSE IF match_shape[1] * match_shape[2] = 0
        THEN [error |-> "ValueError", top_left |-> <<>>, bottom_right |-> <<>>]
        ELSE [error |-> "none", top_left |-> <<y, x>>, bottom_right |-> <<y + h, x + w>>]

\* pixel values of the images followed
Pix == {0, 1}

\* shapes (rows, columns) of the images and of the templates followed; some
\* templates have more rows or columns than some images
ImageShapes == {<<2, 3>>, <<3, 2>>, <<3, 3>>}

TemplateShapes == {<<1, 2>>, <<2, 1>>, <<2, 2>>, <<1, 3>>, <<3, 1>>}

Arrays(shapes) ==
    UNION {[1..shape[1] -> [1..shape[2] -> Pix]] : shape \in shapes}

\* the function is called, and called again, on the same pair
Match ==
    /\ Len(tm.results) < 2
    /\ tm' = [tm EXCEPT !.results = Append(@, GetTemplateMatch(tm.img, tm.template))]
    /\ UNCHANGED <<args, pc, stdout, exit_status, error, fs, hist, lx, sel, cp, px>>

InitMatch ==
    /\ DriverIdle
    /\ tree = TRUE
    /\ disk = WholeTree
    /\ pool = EmptyPool
    /\ dest_dirs = {}
    /\ dest = EmptyDirs
    /\ lx = None /\ sel = None /\ cp = None /\ px = None
    /\ \E grey_img \in Arrays(ImageShapes), grey_template \in Arrays(TemplateShapes) :
         tm = [img |-> grey_img, template |-> grey_template, results |-> <<>>]

NextMatch == Match

SpecMatch == InitMatch /\ [][NextMatch]_vars

----------------------------------------------------------------------------
(* find_mask, paste_selected, paint_rect_edges *)

\* line 233: the bounds of the band of label intensities
BAND_LOW == 120

BAND_HIGH == 220

\* a variant that takes the two bounds into the band
LabelBandInclusive == {x \in Intensities : x <= BAND_HIGH /\ x >= BAND_LOW}

\* line 233: lambda x: x < 220 and x > 120
LabelBand == {x \in Intensities : x < BAND_HIGH /\ x > BAND_LOW}

\* img.size: (width, height) of an image held as the tuple of its rows
ImgSize(grey) == <<Shape(grey)[2], Shape(grey)[1]>>

\* lines 470-476: the mask has img.size[1] rows of img.size[0] entries, and
\* entry [y, x] is 1 where the pixel at (x, y) meets the condition
FindMask(grey, condition) ==
    [y \in 1..ImgSize(grey)[2] |->
        [x \in 1..ImgSize(grey)[1] |->
            IF grey[y][x] \in condition THEN 1 ELSE 0]]

\* shapes (rows, columns) of the crops followed
CropShapes == {<<1, 2>>, <<2, 1>>, <<2, 2>>}

\* intensities on and next to the bounds of the band
CropPix == {BAND_LOW, BAND_LOW + 1, BAND_HIGH - 1, BAND_HIGH}

Crops == UNION {[1..shape[1] -> [1..shape[2] -> CropPix]] : shape \in CropShapes}

\* line 233: class_label_mask = find_mask(class_label_img, ...)
CallFindMask ==
    /\ px.state = "ready"
    /\ px' = [px EXCEPT !.state = "returned", !.mask = FindMask(px.img, LabelBand)]
    /\ UNCHANGED <<args, pc, stdout, exit_status, error, fs, hist, lx, sel, cp, tm>>

\* everything but px at rest
PixelsIdle ==
    /\ DriverIdle
    /\ tree = TRUE
    /\ disk = WholeTree
    /\ pool = EmptyPool
    /\ dest_dirs = {}
    /\ dest = EmptyDirs
    /\ lx = None /\ sel = None /\ cp = None /\ tm = None

InitMask ==
    /\ PixelsIdle
    /\ \E crop \in Crops : px = [state |-> "ready", img |-> crop, mask |-> <<>>]

NextMask == CallFindMask

SpecMask == InitMask /\ [][NextMask]_vars

\* a variant that takes every pixel as flagged
MaskedAny(mask_img, x, y) == TRUE

\* line 452: mask_img.getpixel((x, y)) == 1
Masked(mask_img, x, y) == mask_img[y + 1][x + 1] = 1

\* putpixel raises IndexError for a position outside the image
Outside(img, x, y) ==
    x < 0 \/ y < 0 \/ x >= ImgSize(img)[1] \/ y >= ImgSize(img)[2]

\* lines 450-451: the place of (x, y) in the scan, rows outside, columns inside
ScanIndex(mask_img, x, y) == y * ImgSize(mask_img)[1] + x

\* lines 450-455: the flagged pixels are copied in the order of the scan; the
\* first one that falls outside the destination raises IndexError and the
\* pixels copied before it stay
PasteSelected(background_img, paste_img, mask_img, x_offset, y_offset) ==
    LET flagged == {xy \in (0..(ImgSize(mask_img)[1] - 1)) \X (0..(ImgSize(mask_img)[2] - 1)) :
                        Masked(mask_img, xy[1], xy[2])}
        bad == {xy \in flagged :
                    Outside(background_img, xy[1] + x_offset, xy[2] + y_offset)}
        put == {xy \in flagged :
                    \A b \in bad : ScanIndex(mask_img, xy[1], xy[2])
                                        < ScanIndex(mask_img, b[1], b[2])}
    IN  [error |-> IF bad = {} THEN "none" ELSE "IndexError",
         img |-> [r \in 1..Len(background_img) |->
                    [c \in 1..Len(background_img[r]) |->
                        IF <<c - 1 - x_offset, r - 1 - y_offset>> \in put
                        THEN paste_img[r - y_offset][c - x_offset]
                        ELSE background_img[r][c]]]]

\* the destinations, sources and masks followed, and the offsets: the source
\* lies inside the destination or reaches over its right or lower edge
Destinations == [1..2 -> [1..3 -> {0, 1}]]

Sources == [1..2 -> [1..2 -> {1, 2}]]

Masks == [1..2 -> [1..2 -> {0, 1}]]

PasteOffsets == (0..2) \X (0..1)

CallPasteSelected ==
    /\ px.state = "ready"
    /\ px' = [px EXCEPT
            !.state = "returned",
            !.result = PasteSelected(px.background_img, px.paste_img, px.mask_img,
                                     px.offset[1], px.offset[2])]
    /\ UNCHANGED <<args, pc, stdout, exit_status, error, fs, hist, lx, sel, cp, tm>>

InitPaste ==
    /\ PixelsIdle
    /\ \E background_img \in Destinations, paste_img \in Sources,
          mask_img \in Masks, offset \in PasteOffsets :
         px = [state |-> "ready", background_img |-> background_img,
               paste_img |-> paste_img, mask_img |-> mask_img, offset |-> offset,
               result |-> [error |-> "none", img |-> background_img]]

NextPaste == CallPasteSelected

SpecPaste == InitPaste /\ [][NextPaste]_vars

\* the indices of a[lo:hi] for an axis of length len, as numpy takes them
NpRange(lo, hi, len) == SliceIndex(lo, len)..(SliceIndex(hi, len) - 1)

\* lines 386-403: the pixels (column, row) the mask flags, for an image of
\* the given width and height
PaintRectMask(width, height, top_left, bottom_right, edge_width) ==
    LET x1 == IF top_left[1] - edge_width < 0 THEN 0 ELSE top_left[1]
        y1 == IF top_left[2] - edge_width < 0 THEN 0 ELSE top_left[2]
        x2 == IF bottom_right[1] + edge_width > width THEN width - 1
              ELSE bottom_right[1]
        y2 == IF bottom_right[2] + edge_width > height THEN height - 1
              ELSE bottom_right[2]
        across == NpRange(x1 - edge_width, x2 + edge_width + 1, width)
        down == NpRange(y1, y2 + 1, height)
    IN  (across \X NpRange(y1 - edge_width, y1, height))
            \cup (across \X NpRange(y2 + 1, y2 + 1 + edge_width, height))
            \cup (NpRange(x1 - edge_width, x1, width) \X down)
            \cup (NpRange(x2 + 1, x2 + 1 + edge_width, width) \X down)

\* width and height of the image followed
PaintWidth == 6

PaintHeight == 5

\* the rectangles inside the image, by their first and last column and row
PaintRects ==
    {rect \in ((0..(PaintWidth - 1)) \X (0..(PaintHeight - 1)))
                \X ((0..(PaintWidth - 1)) \X (0..(PaintHeight - 1))) :
        rect[1][1] <= rect[2][1] /\ rect[1][2] <= rect[2][2]}

EdgeWidths == {1, 2}

CallPaintRectEdges ==
    /\ px.state = "ready"
    /\ px' = [px EXCEPT
            !.state = "returned",
            !.mask = PaintRectMask(PaintWidth, PaintHeight, px.top_left,
                                   px.bottom_right, px.edge_width)]
    /\ UNCHANGED <<args, pc, stdout, exit_status, error, fs, hist, lx, sel, cp, tm>>

InitPaint ==
    /\ PixelsIdle
    /\ \E rect \in PaintRects, edge_width \in EdgeWidths :
         px = [state |-> "ready", top_left |-> rect[1], bottom_right |-> rect[2],
               edge_width |-> edge_width, mask |-> {}]

NextPaint == CallPaintRectEdges

SpecPaint == InitPaint /\ [][NextPaint]_vars

----------------------------------------------------------------------------
(* Properties of the generation phases *)

\* create_synthetic_data_dirs has returned in this run
DirsCreated == pc \notin {"idle", "create_dirs"}

\* C19: once create_synthetic_data_dirs has returned, the whole tree exists,
\* whatever part of it existed before the call
C19_WholeTreeAfterCreate == DirsCreated => WholeTree \subseteq disk

\* the photographs get_removed_label has been through
Processed == {lx.done[i] : i \in 1..Len(lx.done)}

\* the number of pixels of the photograph's crop that are darker than 220
DarkPixels(photo) == CheckIncorrectMatch(lx.label_box[photo], Below(220))

ClassLabelWritten(photo) == \E w \in lx.saves : w[1] = photo

LabelRemovedWritten(photo) == \E w \in lx.removes : w[1] = photo

\* C11: the crop of a processed photograph is saved exactly when its count of
\* pixels darker than 220 is above 1000 and below 3000; a rejected crop
\* leaves no file of either kind, and the loop goes on to the next photograph
C11_LabelGate ==
    /\ \A photo \in Processed :
         /\ ClassLabelWritten(photo)
              <=> (DarkPixels(photo) > 1000 /\ DarkPixels(photo) < 3000)
         /\ ~ClassLabelWritten(photo) => ~LabelRemovedWritten(photo)
    /\ {e[2] : e \in lx.class_labels} \subseteq Processed
    /\ (lx.todo # {}) => ENABLED ExtractLabel

\* a crop on each bound was rejected, and a photograph processed after a
\* rejected one was saved
C11_Witness ==
    /\ Len(lx.done) = 2
    /\ DarkPixels(lx.done[1]) \in {1000, 3000}
    /\ ~ClassLabelWritten(lx.done[1])
    /\ DarkPixels(lx.done[2]) \in {1001, 2999}
    /\ ClassLabelWritten(lx.done[2])

\* C12: the photograph without its label is written exactly when its class is
\* fail_label_not_fully_printed or no_fail and its crop passed the gate
C12_LabelRemovedIff ==
    \A photo \in Processed :
        LabelRemovedWritten(photo)
            <=> /\ photo.class_name \in {"fail_label_not_fully_printed", "no_fail"}
                /\ DarkPixels(photo) > 1000
                /\ DarkPixels(photo) < 3000

\* a crop of another class passed the gate and no inpainted photograph was
\* written for it, while one was written for a photograph of no_fail
C12_Witness ==
    /\ Len(lx.done) = 2
    /\ \E i, j \in 1..2 :
         /\ lx.done[i].class_name = "fail_label_half_printed"
         /\ ClassLabelWritten(lx.done[i])
         /\ ~LabelRemovedWritten(lx.done[i])
         /\ lx.done[j].class_name = "no_fail"
         /\ LabelRemovedWritten(lx.done[j])

\* C20: two photographs that differ in split or class are never written to
\* the same class-label path nor to the same label-removed path
C20_DistinctPaths ==
    \A v, w \in lx.saves \cup lx.removes :
        (v[1].data_type # w[1].data_type \/ v[1].class_name # w[1].class_name)
            => v[2] # w[2]

\* the inner loop over the cylinder templates has ended for this file
Finished(file) == file \notin sel.todo /\ file # sel.file

\* the number of pixels darker than 60 in the box matched by candidate k
CylinderPixels(file, k) == CheckIncorrectMatch(sel.cylinder[file][k], Below(60))

\* the number of pixels darker than 1 in the composite made with candidate k
BlackPixels(file, k) == CheckIncorrectMatch(sel.combined[file][k], Below(1))

\* the candidates whose composite was saved for this file
SavedFor(file) ==
    {sel.saves[i][2] : i \in {j \in 1..Len(sel.saves) : sel.saves[j][1] = BmpName(file)}}

\* the candidates tried on this file
EvaluatedFor(file) == {sel.evaluated[file][i] : i \in 1..Len(sel.evaluated[file])}

\* the first candidate, in the order r, l1, l2, whose box has more than 200
\* cylinder pixels (0 when there is none)
FirstCylinder(file) ==
    IF \E k \in Candidates : CylinderPixels(file, k) > 200
    THEN CHOOSE k \in Candidates :
            /\ CylinderPixels(file, k) > 200
            /\ \A j \in 1..(k - 1) : ~(CylinderPixels(file, j) > 200)
    ELSE 0

\* the first candidate whose box has more than 200 cylinder pixels and whose
\* composite has fewer than 1500 black pixels (0 when there is none)
FirstBoth(file) ==
    IF \E k \in Candidates : CylinderPixels(file, k) > 200 /\ BlackPixels(file, k) < 1500
    THEN CHOOSE k \in Candidates :
            /\ CylinderPixels(file, k) > 200 /\ BlackPixels(file, k) < 1500
            /\ \A j \in 1..(k - 1) :
                  ~(CylinderPixels(file, j) > 200 /\ BlackPixels(file, j) < 1500)
    ELSE 0

\* C13 as stated: the candidates are tried in the order r, l1, l2 and none is
\* tried after the first one whose cylinder gate passes
C13_StopAtFirstCylinder ==
    \A file \in sel.files :
        Finished(file) =>
            /\ sel.evaluated[file] =
                  [i \in 1..(IF FirstCylinder(file) = 0 THEN Len(cylinder_templates)
                              ELSE FirstCylinder(file)) |-> i]
            /\ SavedFor(file) \subseteq {FirstCylinder(file)}

\* C13: the candidates are tried in the order r, l1, l2 up to and including
\* the first one that passes both the cylinder gate and the gate on its
\* composite, which is the one saved; all three are tried when there is none
C13_StopAtFirstAccepted ==
    \A file \in sel.files :
        Finished(file) =>
            /\ sel.evaluated[file] =
                  [i \in 1..(IF FirstBoth(file) = 0 THEN Len(cylinder_templates)
                              ELSE FirstBoth(file)) |-> i]
            /\ SavedFor(file) = {FirstBoth(file)} \ {0}

\* the first candidate passed the cylinder gate and failed the composite
\* gate, and the second one was tried and saved, the third left untried
C13_Witness ==
    \E file \in sel.files :
        /\ Finished(file)
        /\ CylinderPixels(file, 1) > 200
        /\ ~(BlackPixels(file, 1) < 1500)
        /\ sel.evaluated[file] = <<1, 2>>
        /\ SavedFor(file) = {2}

\* the keys of the table
TableKeys == {e[1] : e \in sel.filter_coordinates}

\* C14: in one run each photograph has at most one composite saved and at
\* most one table entry, written once; the table holds file.bmp exactly when
\* that composite was saved in this run, which needs fewer than 1500 black
\* pixels; the count equals the number of entries and never exceeds the
\* number of photographs, and it is the count reported
C14_OneEntryPerFile ==
    /\ \A i, j \in 1..Len(sel.saves) : sel.saves[i][1] = sel.saves[j][1] => i = j
    /\ \A file \in sel.files :
         /\ BmpName(file) \in TableKeys <=> SavedFor(file) # {}
         /\ \A k \in SavedFor(file) : BlackPixels(file, k) < 1500
    /\ TableKeys \subseteq {BmpName(file) : file \in sel.files}
    /\ sel.succes_count = Cardinality(TableKeys)
    /\ sel.succes_count = Len(sel.saves)
    /\ sel.succes_count <= Cardinality(sel.files)
    /\ sel.printed # <<>> =>
         sel.printed = <<Cardinality(TableKeys), Cardinality(sel.files)>>

\* the run has returned with one photograph selected and one rejected, the
\* rejected one having a composite with 1500 black pixels, while
\* filter_selected still holds an earlier composite that is not in the table
C14_Witness ==
    /\ sel.printed = <<1, 2>>
    /\ \E file \in sel.files :
         /\ SavedFor(file) = {}
         /\ \E k \in EvaluatedFor(file) :
               CylinderPixels(file, k) > 200 /\ BlackPixels(file, k) = 1500
         /\ <<BmpName(file), "earlier">> \in sel.filter_selected

\* the label is too wide, or too high, for the region less its margins
TooWide == cp.w_filter - cp.w_label - 15 < 15

TooHigh == cp.h_filter - cp.h_label - 15 < 15

Fits ==
    /\ Shape(tm.template)[1] <= Shape(tm.img)[1]
    /\ Shape(tm.template)[2] <= Shape(tm.img)[2]

\* the offsets (column, row) at which the template lies inside the image
Offsets ==
    (0..(Shape(tm.img)[2] - Shape(tm.template)[2]))
        \X (0..(Shape(tm.img)[1] - Shape(tm.template)[1]))

\* the patch of the image under the template at an offset (column, row)
PatchAt(o) ==
    Slice(tm.img, o[2], o[1], Shape(tm.template)[1], Shape(tm.template)[2])

ScoreAt(o) == Score(PatchAt(o), tm.template)

\* o comes before q when the offsets are scanned row by row
ScannedBefore(o, q) == o[2] < q[2] \/ (o[2] = q[2] /\ o[1] < q[1])

PositiveAffineCopy(patch) ==
    /\ Deviation(patch) > 0
    /\ Deviation(tm.template) > 0
    /\ Score(patch, tm.template).c > 0
    /\ Score(patch, tm.template).c * Score(patch, tm.template).c
          = Deviation(patch) * Deviation(tm.template)

\* the image holds the template, which is not constant, at offset o and no
\* positive affine copy of it anywhere else
PastedAt(o) ==
    /\ Deviation(tm.template) > 0
    /\ PatchAt(o) = tm.template
    /\ \A q \in Offsets \ {o} : ~PositiveAffineCopy(PatchAt(q))

\* C17: when the image holds the template at (x0, y0) and no positive affine
\* copy of it elsewhere, the call returns top_left = (x0, y0) and
\* bottom_right = (x0 + template width, y0 + template height)
C17_FindsPastedTemplate ==
    \A i \in 1..Len(tm.results) :
        Fits =>
            \A o \in Offsets :
                PastedAt(o) =>
                    /\ tm.results[i].error = "none"
                    /\ tm.results[i].top_left = o
                    /\ tm.results[i].bottom_right =
                          <<o[1] + Shape(tm.template)[2], o[2] + Shape(tm.template)[1]>>

\* C18: the call raises no error, also when the template is larger than the
\* image or a deviation is zero, and it does not report an offset whose
\* patch has zero deviation when another offset has a score that is a number
C18_DegradesSilently ==
    \A i \in 1..Len(tm.results) :
        /\ tm.results[i].error = "none"
        /\ Deviation(PatchAt(tm.results[i].top_left)) = 0
              => \A o \in Offsets : IsNaN(ScoreAt(o))

----------------------------------------------------------------------------
(* Properties of the assembly and of the generation loop *)

\* the synthetic files create_synthetic_dataset copied to a split in this run
SyntheticCopied(s, c) == SyntheticIn(copied[s][c])

\* C28: the synthetic files copied to train, val and test of a class are
\* pairwise disjoint, and each split gets exactly the number asked for when
\* the pool of the class holds at least train_set + val_set + test_set files
C28_DisjointSplits ==
    assembled =>
        \A c \in Classes :
            /\ \A s, t \in Splits :
                  s # t => SyntheticCopied(s, c) \cap SyntheticCopied(t, c) = {}
            /\ Cardinality(pool[c]) >= args.train_set + args.val_set + args.test_set
                  => \A s \in Splits :
                        Cardinality(SyntheticCopied(s, c)) = SetOf(args, s)

\* a run copied synthetic files to all three splits of a class from a pool
\* that holds enough of them
C28_Witness ==
    /\ assembled
    /\ args.train_set > 0 /\ args.val_set > 0 /\ args.test_set > 0
    /\ \A c \in Classes : Cardinality(pool[c]) >= TotalN(args)
    /\ \A s \in Splits : SyntheticCopied(s, "no_fail") # {}

\* C29: the generation loop never raises IndexError, and a run of it on
\* empty class directories leaves n_data files in each of them
C29_NoIndexError ==
    /\ error # "IndexError"
    /\ (pc \in {"assemble", "done"} /\ gen_calls = 1 /\ pool0 = EmptyPool)
          => \A c \in Classes : Cardinality(pool[c]) = TotalN(args)

----------------------------------------------------------------------------
(* Properties of find_mask, paste_selected, paint_rect_edges *)

\* C21: the mask is 1 exactly at the pixels whose intensity is above 120 and
\* below 220, so a crop of one intensity gives a mask of ones or of zeros,
\* and the mask has the width and the height of the crop
C21_BandMask ==
    px.state = "returned" =>
        /\ Len(px.mask) = Len(px.img)
        /\ \A y \in 1..Len(px.img) :
              /\ Len(px.mask[y]) = Len(px.img[y])
              /\ \A x \in 1..Len(px.img[y]) :
                    px.mask[y][x] = (IF 120 < px.img[y][x] /\ px.img[y][x] < 220
                                     THEN 1 ELSE 0)

\* a crop that is wider than high, filled with 220, got a mask of zeros
C21_Witness ==
    /\ px.state = "returned"
    /\ px.img = <<<<220, 220>>>>
    /\ px.mask = <<<<0, 0>>>>

\* the position of the source that lands on column c, row r of the
\* destination (counted from 1) is inside the mask and flagged
FlaggedOnto(c, r) ==
    LET x == c - px.offset[1]
        y == r - px.offset[2]
    IN  /\ x \in 1..Len(px.mask_img[1])
        /\ y \in 1..Len(px.mask_img)
        /\ px.mask_img[y][x] = 1

\* C27: a destination pixel differs from what it was only where a flagged
\* source pixel lands on it, and then it is that source pixel; when the call
\* returns, every pixel a flagged source pixel lands on is that source
\* pixel, and every other pixel is as it was
C27_PasteFrame ==
    px.state = "returned" =>
        \A r \in 1..Len(px.background_img) :
            \A c \in 1..Len(px.background_img[r]) :
                /\ px.result.img[r][c] # px.background_img[r][c]
                      => /\ FlaggedOnto(c, r)
                         /\ px.result.img[r][c]
                              = px.paste_img[r - px.offset[2]][c - px.offset[1]]
                /\ (px.result.error = "none" /\ FlaggedOnto(c, r))
                      => px.result.img[r][c]
                           = px.paste_img[r - px.offset[2]][c - px.offset[1]]

\* a source with one flagged and one unflagged pixel over destination pixels
\* of another value was pasted at an offset: the first changed, the second
\* did not
C27_Witness ==
    /\ px.state = "returned"
    /\ px.result.error = "none"
    /\ px.offset = <<1, 0>>
    /\ px.mask_img = <<<<1, 0>>, <<0, 0>>>>
    /\ px.background_img = <<<<0, 0, 0>>, <<0, 0, 0>>>>
    /\ px.paste_img = <<<<2, 2>>, <<2, 2>>>>
    /\ px.result.img = <<<<0, 2, 0>>, <<0, 0, 0>>>>

\* the pixels of the image
PaintPixels == (0..(PaintWidth - 1)) \X (0..(PaintHeight - 1))

\* the pixel lies in the columns, or in the rows, of the rectangle
InColumns(q) == px.top_left[1] <= q[1] /\ q[1] <= px.bottom_right[1]

InRows(q) == px.top_left[2] <= q[2] /\ q[2] <= px.bottom_right[2]

\* how far the pixel is from the rectangle, along the columns and the rows
GapX(q) == Max(Max(px.top_left[1] - q[1], q[1] - px.bottom_right[1]), 0)

GapY(q) == Max(Max(px.top_left[2] - q[2], q[2] - px.bottom_right[2]), 0)

\* the pixel is outside the rectangle, straight off one of its four sides,
\* and within edge_width of it
OffASide(q) ==
    \/ InColumns(q) /\ GapY(q) >= 1 /\ GapY(q) <= px.edge_width
    \/ InRows(q) /\ GapX(q) >= 1 /\ GapX(q) <= px.edge_width

\* C30: the mask flags every pixel of the image that is within edge_width
\* off one of the four sides of the rectangle, and no pixel farther than
\* edge_width from it, also for a rectangle near a border of the image
C30_SeamMask ==
    px.state = "returned" =>
        \A q \in PaintPixels :
            /\ OffASide(q) => q \in px.mask
            /\ q \in px.mask => (GapX(q) <= px.edge_width /\ GapY(q) <= px.edge_width)

-----------------------------------------------------------------------------
(* Properties of the composite built by get_selected_filter *)

\* the composite saved under a name of the coordinate table
MadeFor(name) == sel.made[name[1]]

\* a box moved into the frame whose origin is top_left_cc
InFrame(box, top_left_cc) ==
    <<<<box[1][1] - top_left_cc[1], box[1][2] - top_left_cc[2]>>,
      <<box[2][1] - top_left_cc[1], box[2][2] - top_left_cc[2]>>>>

\* C22: every box of the coordinate table is expressed in the frame of the
\* composite it is keyed by: 0 <= top_left.x < bottom_right.x <= width of the
\* composite, 0 <= top_left.y < bottom_right.y <= height of the composite,
\* and it is the cutoff box as it sits inside the composite
C22_BoxInCropFrame ==
    \A entry \in sel.filter_coordinates :
        LET box == entry[2]
            made == MadeFor(entry[1])
        IN  /\ 0 <= box[1][1] /\ box[1][1] < box[2][1] /\ box[2][1] <= made.size[1]
            /\ 0 <= box[1][2] /\ box[1][2] < box[2][2] /\ box[2][2] <= made.size[2]
            /\ box = InFrame(made.cutoff, made.top_left_cc)

\* the columns between the two boxes of a composite, over the rows of the
\* cylinder box: the cylinder right of the cutoff box, and left of it
Between(made) ==
    IF made.cutoff[2][1] < made.cylinder[1][1]
    THEN {<<<<made.cutoff[2][1], made.cylinder[1][2]>>,
            <<made.cylinder[1][1], made.cylinder[2][2]>>>>}
    ELSE IF made.cylinder[2][1] < made.cutoff[1][1]
    THEN {<<<<made.cylinder[2][1], made.cylinder[1][2]>>,
            <<made.cutoff[1][1], made.cylinder[2][2]>>>>}
    ELSE {}

\* C26: for every composite built, every strip cropped has left < right, and
\* the strips cropped are exactly the strip between the two boxes when a
\* horizontal gap separates them and none when they are adjacent
C26_BridgeStrips ==
    \A file \in sel.files :
        LET made == sel.made[file]
        IN  made.built =>
              /\ \A strip \in made.strips : strip[1][1] < strip[2][1]
              /\ made.strips = Between(made)

-----------------------------------------------------------------------------
(* Properties of the placement of the label and of the composite *)

\* C23: in every saved sample of a class other than fail_label_half_printed
\* the rectangle the label is pasted at lies inside the label-bearing region
\* of the composite, 15 pixels or more from each edge of the region, wherever
\* the region sits in the composite
C23_LabelInsideRegion ==
    (cp.background = "saved" /\ cp.class_name # "fail_label_half_printed") =>
        /\ cp.region_x + 15 <= cp.x
        /\ cp.x + cp.w_label <= cp.region_x + cp.w_filter - 15
        /\ cp.region_y + 15 <= cp.y
        /\ cp.y + cp.h_label <= cp.region_y + cp.h_filter - 15

\* C24: in every sample of class fail_label_half_printed whose label is
\* pasted the horizontal offset is the one value the sizes give, and an
\* outer edge of the label lies on an edge of the composite
C24_FlushWithCrop ==
    (cp.state = "pasted" /\ cp.class_name = "fail_label_half_printed") =>
        /\ cp.x = cp.size0 - cp.w_filter
        /\ cp.x = 0 \/ cp.x + cp.w_label = cp.size0

\* C25: in every saved sample the composite lies inside the background, its
\* top row at 60 or below, its bottom edge 30 rows or more above the bottom
\* of the background, and every pixel of it is written inside the background
C25_InsideBackground ==
    cp.background = "saved" =>
        /\ cp.y_background >= 60
        /\ cp.y_background + cp.size1 <= cp.h_background - 30
        /\ 0 <= cp.x_background
        /\ cp.x_background + cp.size0 <= cp.w_background
        /\ {cp.x_background + c : c \in 0..(cp.size0 - 1)} \subseteq 0..(cp.w_background - 1)
        /\ {cp.y_background + r : r \in 0..(cp.size1 - 1)} \subseteq 0..(cp.h_background - 1)

\* a sample is saved whose composite touches the lowest row allowed and the
\* right edge of the background
C25_Witness ==
    /\ cp.background = "saved"
    /\ cp.y_background + cp.size1 = cp.h_background - 30
    /\ cp.y_background > 60
    /\ cp.x_background > 0
    /\ cp.x_background + cp.size0 = cp.w_background
====
